---- MODULE Spec2Model ----
(***************************************************************************)
(* Model of kornia-io's StreamCapture (crates/kornia-io/src/stream/        *)
(* capture.rs) and of kornia-tensor's CpuAllocator / ParentDeallocator     *)
(* (crates/kornia-tensor/src/allocator.rs, parent_deallocator.rs).         *)
(*                                                                         *)
(* Two threads: the GStreamer streaming thread, which runs the appsink     *)
(* new_sample callback, and the consumer thread, which calls start(),      *)
(* grab(), close() and finally drops the StreamCapture.  They share the    *)
(* Arc<Mutex<CircularBuffer<5, FrameBuffer>>>.                             *)
(*                                                                         *)
(* A gstreamer::Buffer is identified by the index of the sample it came    *)
(* from (1, 2, 3, ... in the order pull_sample delivered them).  Dropping  *)
(* the owning reference of a buffer is its release.                        *)
(***************************************************************************)
EXTENDS Integers, Sequences, FiniteSets, TLC

\* Capacity of CircularBuffer<5, FrameBuffer>.
K == 5

\* Bounds of the model.
MaxFrames == 7      \* samples the producer delivers
MaxCloses == 2      \* close sequences completed by explicit close() calls
MaxTensors == 1     \* images the consumer keeps alive at a time
MaxMapFails == 1    \* grab() calls whose map_readable fails
MaxLiveFrames == 6  \* samples delivered in the runs checked for progress
MaxShapeFrames == 2 \* samples delivered in the runs that vary the format
MaxRegions == 3     \* heap regions handed out by the system allocator
MaxParents == 2     \* distinct parent deallocators

Frames == 1..MaxFrames
NoFrame == 0

VARIABLES
    pipeline,       \* state of the gstreamer::Pipeline: "Null" or "Playing"
    ring,           \* contents of the CircularBuffer, front first
    lock,           \* holder of the Mutex: "free", "producer", "consumer"
    pcP,            \* position of the new_sample callback
    inflight,       \* FrameBuffer held by the callback, or NoFrame
    flow,           \* last value the callback returned to the appsink
    nextId,         \* number of samples extracted so far
    pcC,            \* position of the consumer thread
    opResult,       \* what the consumer's last completed call returned
    popped,         \* FrameBuffer held by grab(), or NoFrame
    session,        \* "alive", "dropping" (inside Drop::drop), "dropped",
                    \* or "panicked" (Drop::drop panicked)
    tensors,        \* buffers backing images that are still alive
    grabbed,        \* history: buffers returned by grab(), in order
    released,       \* history: how often each buffer was released
    cause,          \* history: what released each buffer
    parentCalls,    \* history: ParentDeallocator::dealloc calls per buffer
    sysFreed,       \* history: buffers whose bytes went to alloc::dealloc
    closeCompleted, \* history: close sequences run to the end
    closedAtEntry,  \* history: the consumer's current (or last) call is a
                    \* close() that began on a closed session
    budget,         \* samples the stream holds
    formats,        \* what the stream may announce and deliver per sample
    poisoned,       \* the Mutex is poisoned
    meta,           \* width, height and byte length of each extracted sample
    tensorOf,       \* shape, strides and storage length of each live image
    regions,        \* allocator: state of each heap region
    layoutOf,       \* allocator: layout each region was allocated with
    allocLog,       \* allocator: outcome of the last alloc
    deallocLog      \* allocator: input and effect of the last dealloc

producerVars == <<pcP, inflight, flow, nextId, meta>>
tensorVars == <<tensors, grabbed, parentCalls, sysFreed, tensorOf>>
envVars == <<budget, formats, poisoned>>
releaseVars == <<released, cause>>
captureVars == <<pipeline, ring, lock, pcP, inflight, flow, nextId, pcC,
                 opResult, popped, session, tensors, grabbed, released, cause,
                 parentCalls, sysFreed, closeCompleted, closedAtEntry, budget,
                 formats, poisoned, meta, tensorOf>>
allocVars == <<regions, layoutOf, allocLog, deallocLog>>
vars == <<pipeline, ring, lock, pcP, inflight, flow, nextId, pcC, opResult,
          popped, session, tensors, grabbed, released, cause, parentCalls,
          sysFreed, closeCompleted, closedAtEntry, budget, formats, poisoned,
          meta, tensorOf, regions, layoutOf, allocLog, deallocLog>>

Min(a, b) == IF a < b THEN a ELSE b

SeqToSet(s) == {s[i] : i \in 1..Len(s)}

----------------------------------------------------------------------------
(* kornia-tensor: CpuAllocator *)

NullPtr == 0
NoParent == 0
Regions == 1..MaxRegions
Parents == 1..MaxParents

\* Layouts handed to alloc: the one of test_cpu_allocator and a zero-sized
\* one, which alloc passes on to std::alloc::alloc unchecked.
Layouts == {[size |-> 1024, align |-> 64], [size |-> 0, align |-> 1]}
NoLayout == [size |-> 0, align |-> 0]

\* An alloc that passes on whatever std::alloc::alloc returned.
alloc_unchecked(sysPtr) == [ok |-> TRUE, err |-> "none", ptr |-> sysPtr]

\* CpuAllocator::alloc: sysPtr is what std::alloc::alloc returned.
alloc(sysPtr) ==
    IF sysPtr = NullPtr
    THEN [ok |-> FALSE, err |-> "NullPointer", ptr |-> NullPtr]
    ELSE [ok |-> TRUE, err |-> "none", ptr |-> sysPtr]

\* A dealloc that also frees the region itself when a parent is present.
dealloc_frees_borrowed(parent, ptr) ==
    IF parent # NoParent
    THEN [parentCalls |-> 1, freed |-> ptr # NullPtr]
    ELSE IF ptr # NullPtr
         THEN [parentCalls |-> 0, freed |-> TRUE]
         ELSE [parentCalls |-> 0, freed |-> FALSE]

\* CpuAllocator::dealloc: the number of ParentDeallocator::dealloc calls it
\* makes and whether it hands ptr to std::alloc::dealloc.
dealloc(parent, ptr) ==
    IF parent # NoParent
    THEN [parentCalls |-> 1, freed |-> FALSE]
    ELSE IF ptr # NullPtr
         THEN [parentCalls |-> 0, freed |-> TRUE]
         ELSE [parentCalls |-> 0, freed |-> FALSE]

----------------------------------------------------------------------------
(* circular_buffer::CircularBuffer<K, FrameBuffer> *)

\* A push_back that grows the buffer instead of evicting.
push_back_unbounded(q, x) == [buf |-> Append(q, x), dropped |-> {}]

\* A push_back that, when full, rejects the new element instead of evicting
\* the oldest.
push_back_keep_oldest(q, x) ==
    IF Len(q) = K
    THEN [buf |-> q, dropped |-> {x}]
    ELSE [buf |-> Append(q, x), dropped |-> {}]

\* push_back: when full, the front element is dropped to make room.
push_back(q, x) ==
    IF Len(q) = K
    THEN [buf |-> Append(Tail(q), x), dropped |-> {Head(q)}]
    ELSE [buf |-> Append(q, x), dropped |-> {}]

\* A clear that forgets the elements without dropping them.
clear_leak(q) == [buf |-> <<>>, dropped |-> {}]

\* A clear that leaves the buffer as it is.
clear_noop(q) == [buf |-> q, dropped |-> {}]

\* clear: every element is dropped.
clear(q) == [buf |-> <<>>, dropped |-> SeqToSet(q)]

\* Dropping the owning reference of each buffer in S, for the reason why.
Release(S) == [f \in Frames |-> IF f \in S THEN released[f] + 1 ELSE released[f]]
Because(S, why) == [f \in Frames |-> IF f \in S THEN why ELSE cause[f]]

----------------------------------------------------------------------------
(* Samples and the tensor grab() builds over them *)

\* What a sample carries: the width and height fields of its caps and the
\* byte length of its buffer.  Rows of 3-byte pixels are either packed or
\* padded to a multiple of 4 bytes.
Widths == {2, 50}
Heights == {100}
PaddedRow(w) == ((w * 3 + 3) \div 4) * 4
Formats ==
    UNION {{[width |-> w, height |-> h, len |-> w * 3 * h],
            [width |-> w, height |-> h, len |-> PaddedRow(w) * h]} :
           w \in Widths, h \in Heights}

\* A packed RGB sample 50 pixels wide and 100 pixels high.
Rgb100x50 == [width |-> 50, height |-> 100, len |-> 100 * 50 * 3]

NoMeta == [width |-> 0, height |-> 0, len |-> 0]
NoTensor == [shape |-> <<>>, strides |-> <<>>, len |-> 0]

\* kornia_tensor::tensor::get_strides_from_shape: dense row-major strides.
RECURSIVE Product(_)
Product(sq) == IF sq = <<>> THEN 1 ELSE Head(sq) * Product(Tail(sq))
get_strides_from_shape(shape) ==
    [i \in 1..Len(shape) |-> Product(SubSeq(shape, i + 1, Len(shape)))]

\* A grab that takes the shape as [width, height, 3].
GrabTensorTransposed(m) ==
    LET shape == <<m.width, m.height, 3>> IN
      [shape |-> shape, strides |-> get_strides_from_shape(shape),
       len |-> m.len]

\* The Tensor grab() assembles for a frame: shape [height, width, 3] from the
\* frame's own metadata (both positive, so the casts to usize keep them), the
\* strides of that shape, and a storage of the mapped slice's length.
GrabTensor(m) ==
    LET shape == <<m.height, m.width, 3>> IN
      [shape |-> shape, strides |-> get_strides_from_shape(shape),
       len |-> m.len]

----------------------------------------------------------------------------

\* The state after StreamCapture::new, for a stream of b samples drawn from
\* the formats fs.
NewSession(b, fs) ==
    /\ budget = b
    /\ formats = fs
    /\ poisoned = FALSE
    /\ meta = [f \in Frames |-> NoMeta]
    /\ tensorOf = [f \in Frames |-> NoTensor]
    /\ pipeline = "Null"
    /\ ring = <<>>
    /\ lock = "free"
    /\ pcP = "idle"
    /\ inflight = NoFrame
    /\ flow = "none"
    /\ nextId = 0
    /\ pcC = "idle"
    /\ opResult = "Ok"
    /\ popped = NoFrame
    /\ session = "alive"
    /\ tensors = {}
    /\ grabbed = <<>>
    /\ released = [f \in Frames |-> 0]
    /\ cause = [f \in Frames |-> "none"]
    /\ parentCalls = [f \in Frames |-> 0]
    /\ sysFreed = {}
    /\ closeCompleted = 0
    /\ closedAtEntry = FALSE
    /\ regions = [r \in Regions |-> "unused"]
    /\ layoutOf = [r \in Regions |-> NoLayout]
    /\ allocLog = [called |-> FALSE, ok |-> FALSE, err |-> "none",
                   ptr |-> NullPtr]
    /\ deallocLog = [called |-> FALSE, parent |-> NoParent, ptr |-> NullPtr,
                     layout |-> NoLayout, parentCalls |-> 0, freed |-> FALSE]

Init == NewSession(MaxFrames, {Rgb100x50})

\* The session is closed when a close sequence has run to its end and the
\* pipeline has been in Null ever since (a close() that has stopped a
\* restarted pipeline but not yet cleared the ring has not closed it yet).
SessionClosed ==
    /\ closeCompleted > 0
    /\ pipeline = "Null"
    /\ pcC \in {"close_lock", "close_clear"} => closedAtEntry

----------------------------------------------------------------------------
(* The new_sample callback, on the streaming thread *)

\* extract_frame_buffer: pull_sample, caps, height, width, buffer_owned.
\* On any failure the callback returns FlowError::Eos and pushes nothing.
CbExtract ==
    /\ pcP = "idle"
    /\ pipeline = "Playing"
    /\ \/ /\ nextId < budget
          /\ nextId' = nextId + 1
          /\ inflight' = nextId + 1
          /\ \E m \in formats : meta' = [meta EXCEPT ![nextId + 1] = m]
          /\ pcP' = "cb_lock"
          /\ flow' = "pending"
       \/ /\ flow' = "Eos"
          /\ UNCHANGED <<nextId, inflight, pcP, meta>>
    /\ UNCHANGED <<pipeline, ring, lock, pcC, opResult, popped, session,
                   closeCompleted, closedAtEntry>>
    /\ UNCHANGED <<tensorVars, releaseVars, allocVars, envVars>>

\* A callback that goes on to push without waiting for the mutex.
CbLockNoWait ==
    /\ pcP = "cb_lock"
    /\ lock' = "producer"
    /\ pcP' = "cb_push"
    /\ UNCHANGED <<pipeline, ring, inflight, flow, nextId, meta, pcC,
                   opResult, popped, session, closeCompleted, closedAtEntry>>
    /\ UNCHANGED <<tensorVars, releaseVars, allocVars, envVars>>

\* circular_buffer.lock().map_err(|_| FlowError::Error)?  On a poisoned
\* mutex the callback returns the error and frame_buffer is dropped.
CbLock ==
    /\ pcP = "cb_lock"
    /\ lock = "free"
    /\ IF poisoned
       THEN /\ flow' = "Error"
            /\ released' = Release({inflight})
            /\ cause' = Because({inflight}, "poison")
            /\ inflight' = NoFrame
            /\ pcP' = "idle"
            /\ UNCHANGED lock
       ELSE /\ lock' = "producer"
            /\ pcP' = "cb_push"
            /\ UNCHANGED <<inflight, flow, releaseVars>>
    /\ UNCHANGED <<pipeline, ring, nextId, meta, pcC, opResult, popped,
                   session, closeCompleted, closedAtEntry>>
    /\ UNCHANGED <<tensorVars, allocVars, envVars>>

\* The streaming thread panics while the callback holds the guard: the guard
\* is dropped by the unwinding, which poisons the mutex, frame_buffer is
\* dropped with it, and the appsink is told of an error.
CbPanic ==
    /\ pcP = "cb_push"
    /\ poisoned' = TRUE
    /\ lock' = "free"
    /\ released' = Release({inflight})
    /\ cause' = Because({inflight}, "poison")
    /\ inflight' = NoFrame
    /\ flow' = "Error"
    /\ pcP' = "idle"
    /\ UNCHANGED <<pipeline, ring, nextId, meta, pcC, opResult, popped,
                   session, closeCompleted, closedAtEntry, budget, formats>>
    /\ UNCHANGED <<tensorVars, allocVars>>

\* A callback that waits for room in a full ring.
CbPushBlocksOnFull ==
    /\ pcP = "cb_push"
    /\ Len(ring) < K
    /\ LET r == push_back(ring, inflight) IN
         /\ ring' = r.buf
         /\ released' = Release(r.dropped)
         /\ cause' = Because(r.dropped, "evicted")
    /\ lock' = "free"
    /\ flow' = "Ok"
    /\ inflight' = NoFrame
    /\ pcP' = "idle"
    /\ UNCHANGED <<pipeline, nextId, meta, pcC, opResult, popped, session,
                   closeCompleted, closedAtEntry>>
    /\ UNCHANGED <<tensorVars, allocVars, envVars>>

\* guard.push_back(frame_buffer); Ok(FlowSuccess::Ok); the guard is dropped.
CbPush ==
    /\ pcP = "cb_push"
    /\ LET r == push_back(ring, inflight) IN
         /\ ring' = r.buf
         /\ released' = Release(r.dropped)
         /\ cause' = Because(r.dropped, "evicted")
    /\ lock' = "free"
    /\ flow' = "Ok"
    /\ inflight' = NoFrame
    /\ pcP' = "idle"
    /\ UNCHANGED <<pipeline, nextId, meta, pcC, opResult, popped, session,
                   closeCompleted, closedAtEntry>>
    /\ UNCHANGED <<tensorVars, allocVars, envVars>>

----------------------------------------------------------------------------
(* StreamCapture::start *)

\* A start that takes the guard out of the PoisonError and goes on.
StartLockIgnoresPoison ==
    /\ pcC = "idle"
    /\ session = "alive"
    /\ lock = "free"
    /\ lock' = "consumer"
    /\ pcC' = "start_clear"
    /\ opResult' = "pending"
    /\ closedAtEntry' = FALSE
    /\ UNCHANGED <<pipeline, ring, popped, session, closeCompleted>>
    /\ UNCHANGED <<producerVars, tensorVars, releaseVars, allocVars, envVars>>

\* self.circular_buffer.lock().map_err(|_| MutexPoisonError)?
StartLock ==
    /\ pcC = "idle"
    /\ session = "alive"
    /\ lock = "free"
    /\ IF poisoned
       THEN /\ opResult' = "MutexPoisonError"
            /\ UNCHANGED <<lock, pcC>>
       ELSE /\ lock' = "consumer"
            /\ pcC' = "start_clear"
            /\ opResult' = "pending"
    /\ closedAtEntry' = FALSE
    /\ UNCHANGED <<pipeline, ring, popped, session, closeCompleted>>
    /\ UNCHANGED <<producerVars, tensorVars, releaseVars, allocVars, envVars>>

\* A start that leaves the ring as it finds it.
StartClearSkipped ==
    /\ pcC = "start_clear"
    /\ lock' = "free"
    /\ pcC' = "start_set"
    /\ UNCHANGED <<pipeline, ring, opResult, popped, session, closeCompleted,
                   closedAtEntry>>
    /\ UNCHANGED <<producerVars, tensorVars, releaseVars, allocVars, envVars>>

\* .clear(); the temporary guard is dropped at the end of the statement.
StartClear ==
    /\ pcC = "start_clear"
    /\ LET r == clear(ring) IN
         /\ ring' = r.buf
         /\ released' = Release(r.dropped)
         /\ cause' = Because(r.dropped, "cleared")
    /\ lock' = "free"
    /\ pcC' = "start_set"
    /\ UNCHANGED <<pipeline, opResult, popped, session, closeCompleted,
                   closedAtEntry>>
    /\ UNCHANGED <<producerVars, tensorVars, allocVars, envVars>>

\* self.pipeline.set_state(State::Playing)?; Ok(())
StartSetState ==
    /\ pcC = "start_set"
    /\ \/ /\ pipeline' = "Playing"
          /\ opResult' = "Ok"
       \/ /\ opResult' = "StateChangeError"
          /\ UNCHANGED pipeline
    /\ pcC' = "idle"
    /\ UNCHANGED <<ring, lock, popped, session, closeCompleted,
                   closedAtEntry>>
    /\ UNCHANGED <<producerVars, tensorVars, releaseVars, allocVars, envVars>>

----------------------------------------------------------------------------
(* StreamCapture::grab *)

\* self.circular_buffer.lock().map_err(|_| MutexPoisonError)?; the guard
\* lives until grab returns.
GrabLock ==
    /\ pcC = "idle"
    /\ session = "alive"
    /\ Cardinality(tensors) < MaxTensors
    /\ lock = "free"
    /\ IF poisoned
       THEN /\ opResult' = "MutexPoisonError"
            /\ UNCHANGED <<lock, pcC>>
       ELSE /\ lock' = "consumer"
            /\ pcC' = "grab_pop"
            /\ opResult' = "pending"
    /\ closedAtEntry' = FALSE
    /\ UNCHANGED <<pipeline, ring, popped, session, closeCompleted>>
    /\ UNCHANGED <<producerVars, tensorVars, releaseVars, allocVars, envVars>>

\* A grab that reports an empty ring as an error.
GrabPopEmptyIsError ==
    /\ pcC = "grab_pop"
    /\ IF ring = <<>>
       THEN /\ opResult' = "GetBufferError"
            /\ lock' = "free"
            /\ pcC' = "idle"
            /\ UNCHANGED <<ring, popped>>
       ELSE /\ popped' = Head(ring)
            /\ ring' = Tail(ring)
            /\ pcC' = "grab_map"
            /\ UNCHANGED <<opResult, lock>>
    /\ UNCHANGED <<pipeline, session, closeCompleted, closedAtEntry>>
    /\ UNCHANGED <<producerVars, tensorVars, releaseVars, allocVars, envVars>>

\* A grab that takes the newest frame (pop_back) instead of the oldest.
GrabPopNewest ==
    /\ pcC = "grab_pop"
    /\ IF ring = <<>>
       THEN /\ opResult' = "None"
            /\ lock' = "free"
            /\ pcC' = "idle"
            /\ UNCHANGED <<ring, popped>>
       ELSE /\ popped' = ring[Len(ring)]
            /\ ring' = SubSeq(ring, 1, Len(ring) - 1)
            /\ pcC' = "grab_map"
            /\ UNCHANGED <<opResult, lock>>
    /\ UNCHANGED <<pipeline, session, closeCompleted, closedAtEntry>>
    /\ UNCHANGED <<producerVars, tensorVars, releaseVars, allocVars, envVars>>

\* if let Some(frame_buffer) = circular_buffer.pop_front() {...}; Ok(None)
GrabPop ==
    /\ pcC = "grab_pop"
    /\ IF ring = <<>>
       THEN /\ opResult' = "None"
            /\ lock' = "free"
            /\ pcC' = "idle"
            /\ UNCHANGED <<ring, popped>>
       ELSE /\ popped' = Head(ring)
            /\ ring' = Tail(ring)
            /\ pcC' = "grab_map"
            /\ UNCHANGED <<opResult, lock>>
    /\ UNCHANGED <<pipeline, session, closeCompleted, closedAtEntry>>
    /\ UNCHANGED <<producerVars, tensorVars, releaseVars, allocVars, envVars>>

\* A grab that builds the tensor over the raw pointer only: frame_buffer, and
\* with it the buffer, is dropped when grab returns.
GrabMapDangling ==
    /\ pcC = "grab_map"
    /\ \/ /\ tensors' = tensors \cup {popped}
          /\ tensorOf' = [tensorOf EXCEPT ![popped] = GrabTensor(meta[popped])]
          /\ grabbed' = Append(grabbed, popped)
          /\ opResult' = "Some"
          /\ released' = Release({popped})
          /\ cause' = Because({popped}, "grab")
       \/ /\ Cardinality({f \in Frames : cause[f] = "mapfail"}) < MaxMapFails
          /\ released' = Release({popped})
          /\ cause' = Because({popped}, "mapfail")
          /\ opResult' = "GetBufferError"
          /\ UNCHANGED <<tensors, grabbed, tensorOf>>
    /\ popped' = NoFrame
    /\ lock' = "free"
    /\ pcC' = "idle"
    /\ UNCHANGED <<pipeline, ring, session, parentCalls, sysFreed,
                   closeCompleted, closedAtEntry>>
    /\ UNCHANGED <<producerVars, allocVars, envVars>>

\* A grab that puts the frame back at the front of the ring when its buffer
\* cannot be mapped.
GrabMapRequeues ==
    /\ pcC = "grab_map"
    /\ \/ /\ tensors' = tensors \cup {popped}
          /\ tensorOf' = [tensorOf EXCEPT ![popped] = GrabTensor(meta[popped])]
          /\ grabbed' = Append(grabbed, popped)
          /\ opResult' = "Some"
          /\ UNCHANGED <<releaseVars, ring>>
       \/ /\ Cardinality({f \in Frames : cause[f] = "mapfail"}) < MaxMapFails
          /\ ring' = <<popped>> \o ring
          /\ cause' = Because({popped}, "mapfail")
          /\ opResult' = "GetBufferError"
          /\ UNCHANGED <<tensors, grabbed, tensorOf, released>>
    /\ popped' = NoFrame
    /\ lock' = "free"
    /\ pcC' = "idle"
    /\ UNCHANGED <<pipeline, session, parentCalls, sysFreed,
                   closeCompleted, closedAtEntry>>
    /\ UNCHANGED <<producerVars, allocVars, envVars>>

\* frame_buffer.buffer.map_readable(): on failure grab returns GetBufferError
\* and frame_buffer is dropped; on success the buffer moves into the
\* GstParentDeallocator of the tensor's allocator and the image is returned.
GrabMap ==
    /\ pcC = "grab_map"
    /\ \/ /\ tensors' = tensors \cup {popped}
          /\ tensorOf' = [tensorOf EXCEPT ![popped] = GrabTensor(meta[popped])]
          /\ grabbed' = Append(grabbed, popped)
          /\ opResult' = "Some"
          /\ UNCHANGED releaseVars
       \/ /\ Cardinality({f \in Frames : cause[f] = "mapfail"}) < MaxMapFails
          /\ released' = Release({popped})
          /\ cause' = Because({popped}, "mapfail")
          /\ opResult' = "GetBufferError"
          /\ UNCHANGED <<tensors, grabbed, tensorOf>>
    /\ popped' = NoFrame
    /\ lock' = "free"
    /\ pcC' = "idle"
    /\ UNCHANGED <<pipeline, ring, session, parentCalls, sysFreed,
                   closeCompleted, closedAtEntry>>
    /\ UNCHANGED <<producerVars, allocVars, envVars>>

\* TensorStorage's destructor hands its pointer to the allocator it carries.
StorageDrop(parent, ptr) == dealloc(parent, ptr)

\* The image returned by grab() is dropped: its storage is destroyed, then
\* the allocator's Arc<GstParentDeallocator> and with it the gstreamer::Buffer.
TensorDrop(f) ==
    /\ f \in tensors
    /\ LET d == StorageDrop(f, f) IN
         /\ parentCalls' = [parentCalls EXCEPT ![f] = @ + d.parentCalls]
         /\ sysFreed' = IF d.freed THEN sysFreed \cup {f} ELSE sysFreed
    /\ tensors' = tensors \ {f}
    /\ tensorOf' = [tensorOf EXCEPT ![f] = NoTensor]
    /\ released' = Release({f})
    /\ cause' = Because({f}, "tensor")
    /\ UNCHANGED <<pipeline, ring, lock, pcC, opResult, popped, session,
                   grabbed, closeCompleted, closedAtEntry>>
    /\ UNCHANGED <<producerVars, allocVars, envVars>>

----------------------------------------------------------------------------
(* StreamCapture::close, called explicitly or by Drop::drop *)

\* close() returns res.  Drop::drop unwraps the result with expect, and then
\* the StreamCapture is gone.
CloseReturn(dropping, res) ==
    /\ opResult' = res
    /\ pcC' = "idle"
    /\ session' = IF dropping
                  THEN (IF res = "Ok" THEN "dropped" ELSE "panicked")
                  ELSE session

\* self.pipeline.send_event(Eos::new()); if !res { return Err(SendEosError) }
CloseSendEos(dropping) ==
    /\ pcC = "idle"
    /\ session = "alive"
    /\ closedAtEntry' = SessionClosed
    /\ \/ /\ pcC' = "close_set"
          /\ session' = IF dropping THEN "dropping" ELSE session
          /\ opResult' = "pending"
       \/ CloseReturn(dropping, "SendEosError")
    /\ UNCHANGED <<pipeline, ring, lock, popped, closeCompleted>>
    /\ UNCHANGED <<producerVars, tensorVars, releaseVars, allocVars, envVars>>

\* An explicit close().
CloseCall ==
    /\ closeCompleted < MaxCloses
    /\ CloseSendEos(FALSE)

\* impl Drop for StreamCapture: self.close().expect(...)
DropCall == CloseSendEos(TRUE)

\* self.pipeline.set_state(State::Null)?  The state change returns only once
\* the streaming thread has left the callback.
CloseSetState ==
    /\ pcC = "close_set"
    /\ pcP = "idle"
    /\ \/ /\ pipeline' = "Null"
          /\ pcC' = "close_lock"
          /\ UNCHANGED <<opResult, session, closedAtEntry>>
       \/ /\ UNCHANGED <<pipeline, closedAtEntry>>
          /\ CloseReturn(session = "dropping", "StateChangeError")
    /\ UNCHANGED <<ring, lock, popped, closeCompleted>>
    /\ UNCHANGED <<producerVars, tensorVars, releaseVars, allocVars, envVars>>

\* self.circular_buffer.lock().map_err(|_| MutexPoisonError)?
CloseLock ==
    /\ pcC = "close_lock"
    /\ lock = "free"
    /\ IF poisoned
       THEN /\ CloseReturn(session = "dropping", "MutexPoisonError")
            /\ UNCHANGED lock
       ELSE /\ lock' = "consumer"
            /\ pcC' = "close_clear"
            /\ UNCHANGED <<opResult, session>>
    /\ UNCHANGED <<pipeline, ring, popped, closeCompleted, closedAtEntry>>
    /\ UNCHANGED <<producerVars, tensorVars, releaseVars, allocVars, envVars>>

\* .clear(); Ok(())
CloseClear ==
    /\ pcC = "close_clear"
    /\ LET r == clear(ring) IN
         /\ ring' = r.buf
         /\ released' = Release(r.dropped)
         /\ cause' = Because(r.dropped, "cleared")
    /\ lock' = "free"
    /\ closeCompleted' = closeCompleted + 1
    /\ CloseReturn(session = "dropping", "Ok")
    /\ UNCHANGED <<pipeline, popped, closedAtEntry>>
    /\ UNCHANGED <<producerVars, tensorVars, allocVars, envVars>>

----------------------------------------------------------------------------
(* Direct use of the allocator, as in test_cpu_allocator *)

\* allocator.alloc(layout)?  std::alloc::alloc returns null or a region not
\* in use; for the zero-sized layout its behaviour is undefined and the
\* system allocator gives one of the same two outcomes.
AllocCall ==
    /\ \E layout \in Layouts,
          sysPtr \in {NullPtr} \cup {r \in Regions : regions[r] = "unused"} :
         LET a == alloc(sysPtr) IN
           /\ allocLog' = [called |-> TRUE, ok |-> a.ok, err |-> a.err,
                           ptr |-> a.ptr]
           /\ regions' = IF sysPtr # NullPtr
                         THEN [regions EXCEPT ![sysPtr] = "live"]
                         ELSE regions
           /\ layoutOf' = IF sysPtr # NullPtr
                          THEN [layoutOf EXCEPT ![sysPtr] = layout]
                          ELSE layoutOf
    /\ UNCHANGED deallocLog
    /\ UNCHANGED captureVars

\* allocator.dealloc(ptr, layout), with the layout ptr was allocated with.
DeallocCall ==
    /\ \E parent \in {NoParent} \cup Parents,
          ptr \in {NullPtr} \cup {r \in Regions : regions[r] = "live"} :
         LET d == dealloc(parent, ptr)
             layout == IF ptr = NullPtr THEN NoLayout ELSE layoutOf[ptr] IN
           /\ deallocLog' = [called |-> TRUE, parent |-> parent, ptr |-> ptr,
                             layout |-> layout,
                             parentCalls |-> d.parentCalls, freed |-> d.freed]
           /\ regions' = IF d.freed
                         THEN [regions EXCEPT ![ptr] = "freed"]
                         ELSE regions
    /\ UNCHANGED <<allocLog, layoutOf>>
    /\ UNCHANGED captureVars

----------------------------------------------------------------------------

Next ==
    \/ CbExtract
    \/ CbLock
    \/ CbPush
    \/ StartLock
    \/ StartClear
    \/ StartSetState
    \/ GrabLock
    \/ GrabPop
    \/ GrabMap
    \/ \E f \in Frames : TensorDrop(f)
    \/ CloseCall
    \/ DropCall
    \/ CloseSetState
    \/ CloseLock
    \/ CloseClear

Spec == Init /\ [][Next]_vars

\* The same session, with a stream of few samples of any format.
InitShape == NewSession(MaxShapeFrames, Formats)

SpecShape == InitShape /\ [][Next]_vars

\* The same session on a stream of MaxLiveFrames samples.
InitLive == NewSession(MaxLiveFrames, {Rgb100x50})

\* The steps of a callback or of a call that has been entered.
InProgressStep ==
    \/ CbLock
    \/ CbPush
    \/ StartClear
    \/ StartSetState
    \/ GrabPop
    \/ GrabMap
    \/ CloseSetState
    \/ CloseLock
    \/ CloseClear

\* Fair scheduling of the two threads: a thread that can run its next
\* statement runs it, a thread that finds the mutex free again and again gets
\* it, and set_state(Null) gets to join the streaming thread.
Fairness ==
    /\ SF_vars(CbLock)
    /\ WF_vars(CbPush)
    /\ WF_vars(StartClear)
    /\ WF_vars(StartSetState)
    /\ WF_vars(GrabPop)
    /\ WF_vars(GrabMap)
    /\ SF_vars(CloseSetState)
    /\ WF_vars(CloseLock)
    /\ WF_vars(CloseClear)

SpecLive == InitLive /\ [][Next]_vars /\ Fairness

\* The session with a streaming thread that can panic inside the callback.
NextPoison == Next \/ CbPanic

SpecPoison == InitLive /\ [][NextPoison]_vars

NextAlloc ==
    \/ AllocCall
    \/ DeallocCall

SpecAlloc == Init /\ [][NextAlloc]_vars

----------------------------------------------------------------------------
(* Properties *)

\* The frames pushed so far, i.e. the samples whose callback got as far as
\* push_back.
Pushed == IF inflight = NoFrame THEN nextId ELSE nextId - 1

\* C1: in every reachable state the ring holds at most K = 5 frame handles.
RingWithinCapacity == Len(ring) <= K

\* A full ring whose oldest entry has already been evicted once.
RingFullAfterEviction ==
    /\ Len(ring) = K
    /\ \E f \in Frames : cause[f] = "evicted"

TensorBufferNotReleased == \A f \in tensors : released[f] = 0

\* A tensor that has outlived an overflow of the ring and the session itself.
TensorOutlivesSession ==
    \E f \in tensors :
      /\ released[f] = 0
      /\ session = "dropped"
      /\ \E g \in Frames : g > f /\ cause[g] = "evicted"

Ascending(S) ==
    [i \in 1..Cardinality(S) |->
       CHOOSE x \in S : Cardinality({y \in S : y < x}) = i - 1]

\* No frame has left the ring other than by eviction.
NoPopYet ==
    /\ grabbed = <<>>
    /\ popped = NoFrame
    /\ \A f \in Frames : cause[f] \notin {"cleared", "mapfail", "tensor"}

\* The frames grab() has taken or is holding, then those still in the ring.
Drained ==
    grabbed \o (IF popped = NoFrame THEN <<>> ELSE <<popped>>) \o ring

\* C5: n pushes without a pop leave the last min(n, K) frames in push order
\* and have released exactly the first n - K; as long as nothing is cleared
\* or fails to map, what a drain yields is the pushed frames that were not
\* evicted, in push order (F3..F7 after F1..F7).
OverflowKeepsLastK ==
    /\ NoPopYet =>
         /\ ring = [i \in 1..Min(Pushed, K) |-> Pushed - Min(Pushed, K) + i]
         /\ \A f \in 1..Pushed :
              /\ released[f] = (IF f <= Pushed - K THEN 1 ELSE 0)
              /\ cause[f] = (IF f <= Pushed - K THEN "evicted" ELSE "none")
    /\ (\A f \in Frames : cause[f] \notin {"cleared", "mapfail"}) =>
         Drained = Ascending({f \in 1..Pushed : cause[f] # "evicted"})
    /\ \A f \in Frames : cause[f] = "evicted" => released[f] = 1

\* F1 and F2 were evicted and the drain has returned F3..F7.
DrainedThreeToSeven ==
    /\ cause[1] = "evicted" /\ released[1] = 1
    /\ cause[2] = "evicted" /\ released[2] = 1
    /\ grabbed = <<3, 4, 5, 6, 7>>
    /\ \A f \in 3..7 : cause[f] \in {"none", "tensor"}

GrabEmptyReturnsNone ==
    [][(pcC = "grab_pop" /\ ring = <<>> /\ pcC' # "grab_pop") =>
         (opResult' = "None" /\ pcC' = "idle" /\ lock' = "free"
            /\ ring' = <<>> /\ popped' = NoFrame)]_vars

\* start() on a fresh session, no push, and grab() has returned Ok(None).
FreshStartGrabNone ==
    /\ pipeline = "Playing"
    /\ nextId = 0
    /\ closeCompleted = 0
    /\ pcC = "idle"
    /\ opResult = "None"

\* C8, as stated: once a close() has completed the pipeline is never again
\* in the Playing state.
ClosedIsTerminal == closeCompleted > 0 => pipeline # "Playing"

\* C9, as stated: a session that has been discarded has had its close
\* sequence performed exactly once.
DiscardedClosedExactlyOnce == session = "dropped" => closeCompleted = 1

\* C10: every step of an explicit close() on a session that is already
\* closed leaves the ring empty and does not panic, and the step that ends a
\* close sequence leaves the ring empty.
CloseOnClosedKeepsRingEmpty ==
    [][(\/ SessionClosed /\ CloseCall
        \/ /\ closedAtEntry
           /\ session = "alive"
           /\ CloseSetState \/ CloseLock \/ CloseClear
        \/ CloseClear)
         => (ring' = <<>> /\ (session = "alive" => session' = "alive"))]_vars

\* A second close() on a closed session has run to its end.
ClosedTwice ==
    /\ closedAtEntry
    /\ pcC = "idle"
    /\ session = "alive"
    /\ opResult = "Ok"
    /\ closeCompleted = 2

\* C11, as stated: a session that has been discarded has its pipeline
\* stopped and its ring cleared, and discarding it did not panic.
DiscardCompletesTeardown ==
    session \in {"dropped", "panicked"} =>
      (session = "dropped" /\ pipeline = "Null" /\ ring = <<>>)

\* C12, as stated: once a close() has returned Ok the ring is empty and
\* stays empty.
RingEmptyAfterClose == closeCompleted > 0 => ring = <<>>

\* C13: the ring is only ever touched by the thread that holds the mutex, one
\* thread at a time, also when close() is called during a callback; the ring
\* stays within capacity and no frame is released twice or released while it
\* is in the ring.
LockSerializesRing ==
    /\ (pcP = "cb_push") <=> (lock = "producer")
    /\ (pcC \in {"start_clear", "grab_pop", "grab_map", "close_clear"})
         <=> (lock = "consumer")
    /\ Len(ring) <= K
    /\ \A f \in Frames : released[f] <= 1
    /\ \A i \in 1..Len(ring) : released[ring[i]] = 0
    /\ \A i, j \in 1..Len(ring) : i # j => ring[i] # ring[j]

\* close() has been called while the callback holds the mutex, about to push
\* onto a full ring.
CloseDuringPush ==
    /\ pcC = "close_set"
    /\ session = "alive"
    /\ pcP = "cb_push"
    /\ Len(ring) = K

\* C15, as stated: the callback never answers an extraction failure with an
\* end-of-stream outcome.
ExtractFailureIsNotEos == flow # "Eos"

\* C16, as stated: grab() never returns an error for a frame it popped.
GrabNeverReturnsFrameError == opResult # "GetBufferError"

\* C20: start() empties the ring and releases, in that step, every frame it
\* finds there; a frame released by a clear is never held or returned by a
\* grab(); when start() sets a never-started pipeline to Playing the ring is
\* empty.
StartDropsStaleFrames ==
    [][/\ StartClear =>
            /\ ring' = <<>>
            /\ \A i \in 1..Len(ring) :
                 /\ released[ring[i]] = 0
                 /\ released'[ring[i]] = 1
                 /\ cause'[ring[i]] = "cleared"
       /\ \A f \in Frames :
            cause'[f] = "cleared" =>
              /\ popped' # f
              /\ f \notin tensors'
              /\ \A i \in 1..Len(grabbed') : grabbed'[i] # f
       /\ (StartSetState /\ nextId = 0 /\ closeCompleted = 0) => ring = <<>>
      ]_vars

\* start() has cleared frames out of the ring of a running session and a
\* later grab() has returned a newer frame.
GrabAfterRestartIsFresh ==
    /\ closeCompleted = 0
    /\ \E f \in Frames :
         /\ cause[f] = "cleared"
         /\ Len(grabbed) > 0
         /\ grabbed[Len(grabbed)] > f


----------------------------------------------------------------------------
\* Tensors built by grab (SpecShape).

ElementCount(t) == Product(t.shape)

\* C18: every tensor grab() has returned has a storage whose byte length is
\* product(shape) * 1 (u8 elements), i.e. height * width * 3, whatever the
\* length of the buffer and the width and height of its caps.
TensorLenMatchesShape ==
    \A f \in tensors : tensorOf[f].len = ElementCount(tensorOf[f])

----------------------------------------------------------------------------
\* A poisoned ring lock (SpecPoison).

\* C17, as stated: once the lock is poisoned the ring is not touched, no
\* callback pushes, start() does not set the pipeline to Playing, and every
\* start(), grab() or close() called after the poisoning returns
\* MutexPoisonError (here: every call that returns in the step it is made).
PoisonedCallsReturnPoisonError ==
    [][poisoned =>
          /\ ring' = ring
          /\ pcP' # "cb_push"
          /\ (pcC = "idle" /\ pcC' = "start_set") => FALSE
          /\ (pcC = "idle" /\ pcC' = "idle" /\ opResult' # opResult)
                 => opResult' = "MutexPoisonError"]_vars

\* C17, amended: once the lock is poisoned nobody holds it again and the
\* ring is not touched; start() and grab() return MutexPoisonError at once,
\* start() without setting the pipeline to Playing; close() still sends EOS
\* and stops the pipeline and returns MutexPoisonError when it reaches the
\* lock, so a close() that returns at once returns SendEosError; a callback
\* returns FlowError::Error without pushing.
PoisonedLockStopsRingAccess ==
    [][poisoned =>
          /\ lock = "free" /\ lock' = "free"
          /\ ring' = ring
          /\ pcP' # "cb_push"
          /\ (pcP = "cb_lock" /\ pcP' = "idle") => flow' = "Error"
          /\ (StartLock \/ GrabLock) =>
                 /\ opResult' = "MutexPoisonError"
                 /\ pcC' = "idle"
                 /\ pipeline' = pipeline
          /\ pcC' \notin {"start_clear", "grab_pop", "grab_map", "close_clear"}
          /\ pcC' = "start_set" => pcC = "start_set"
          /\ (pcC = "close_lock" /\ pcC' = "idle")
                 => opResult' = "MutexPoisonError"
          /\ (pcC = "idle" /\ pcC' = "idle" /\ opResult' # opResult)
                 => opResult' \in {"MutexPoisonError", "SendEosError"}]_vars

\* A callback has panicked with frames in the ring, and a close() has
\* stopped the pipeline and returned MutexPoisonError, leaving the ring as
\* it was.
ClosedOnPoisonedLock ==
    /\ poisoned
    /\ flow = "Error"
    /\ pipeline = "Null"
    /\ pcC = "idle"
    /\ opResult = "MutexPoisonError"
    /\ ring # <<>>


----------------------------------------------------------------------------
\* Progress of the two threads (SpecLive).

\* C14: under fair scheduling every callback invocation and every start(),
\* grab() and close() call that has been entered returns; whenever a thread
\* is inside a callback or a call some thread inside one can take its next
\* step; no call holds the ring lock while it waits in set_state for the
\* pipeline; and the push of a callback always completes with
\* FlowSuccess::Ok, also onto a full ring.
EveryCallReturns ==
    /\ (pcP # "idle") ~> (pcP = "idle")
    /\ (pcC # "idle") ~> (pcC = "idle")
    /\ []((pcP # "idle" \/ pcC # "idle") => ENABLED InProgressStep)
    /\ [](pcC \in {"start_set", "close_set"} => lock # "consumer")
    /\ [][pcP = "cb_push" /\ pcP' # pcP => pcP' = "idle" /\ flow' = "Ok"]_vars

\* A callback has just pushed onto a full ring, evicting the oldest frame,
\* while a close() was waiting in set_state(Null) for it.
PushedOnFullDuringClose ==
    /\ pcC = "close_set"
    /\ pcP = "idle"
    /\ flow = "Ok"
    /\ Len(ring) = K
    /\ nextId = K + 1
    /\ ring[K] = nextId
    /\ cause[1] = "evicted"


----------------------------------------------------------------------------
\* Allocation (SpecAlloc).

\* C21: alloc returns either Ok with a non-null region, taken for the layout
\* asked for, or Err(NullPointer), never Ok with a null pointer; and a region
\* alloc has returned is freed by the one dealloc that is given it with its
\* layout on an allocator without parent, and by nothing else.
AllocNonNullOrError ==
    /\ [](allocLog.called =>
            IF allocLog.ok
            THEN /\ allocLog.ptr \in Regions
                 /\ allocLog.err = "none"
                 /\ regions[allocLog.ptr] # "unused"
                 /\ layoutOf[allocLog.ptr] \in Layouts
            ELSE /\ allocLog.ptr = NullPtr
                 /\ allocLog.err = "NullPointer")
    /\ [][\A r \in Regions :
            /\ regions'[r] # regions[r] =>
                 \/ /\ regions[r] = "unused" /\ regions'[r] = "live"
                    /\ allocLog'.ok /\ allocLog'.ptr = r
                 \/ /\ regions[r] = "live" /\ regions'[r] = "freed"
                    /\ deallocLog'.ptr = r
                    /\ deallocLog'.parent = NoParent
                    /\ deallocLog'.layout = layoutOf[r]
            /\ (/\ deallocLog' # deallocLog
                /\ deallocLog'.ptr = r
                /\ deallocLog'.parent = NoParent) => regions'[r] = "freed"]_vars

\* As in test_cpu_allocator: the region of the last successful alloc, of
\* 1024 bytes aligned to 64, has been given back by the last dealloc.
AllocatedThenReleased ==
    /\ allocLog.called /\ allocLog.ok
    /\ deallocLog.called
    /\ deallocLog.ptr = allocLog.ptr
    /\ deallocLog.parent = NoParent
    /\ deallocLog.layout = [size |-> 1024, align |-> 64]
    /\ regions[allocLog.ptr] = "freed"


----------------------------------------------------------------------------
\* The lock and the error path inside grab (Spec).

\* C22: grab() does not hold the ring lock while it maps the popped buffer
\* and builds the tensor, so no callback waits for the lock during that work.
GrabMapsOutsideLock == pcC = "grab_map" => lock # "consumer"

\* C23: when grab() has popped a frame and fails to map its buffer, the
\* frame, older than every frame left in the ring, is released in that step,
\* for the first and only time, and is neither put back nor handed out; the
\* ring is left as it was; and the grab() that next pops a frame pops the
\* head of the ring, a frame pushed after every frame that failed to map.
MapFailureDropsOnlyThatFrame ==
    /\ [](\A f \in Frames :
            cause[f] = "mapfail" =>
              /\ released[f] = 1
              /\ f \notin SeqToSet(ring)
              /\ f \notin tensors
              /\ f \notin SeqToSet(grabbed)
              /\ f # popped)
    /\ [][(pcC = "grab_map" /\ opResult' = "GetBufferError") =>
            /\ ring' = ring
            /\ \A g \in SeqToSet(ring) : g > popped
            /\ released[popped] = 0
            /\ released'[popped] = 1
            /\ pcC' = "idle"]_vars
    /\ [][(pcC = "grab_pop" /\ pcC' = "grab_map") =>
            /\ popped' = Head(ring)
            /\ ring' = Tail(ring)
            /\ \A f \in Frames : cause[f] = "mapfail" => f < popped']_vars

\* The first frame failed to map; the next grab() returned the second one,
\* and the third is still waiting in the ring.
NextGrabAfterMapFailure ==
    /\ cause[1] = "mapfail"
    /\ released[1] = 1
    /\ grabbed = <<2>>
    /\ opResult = "Some"
    /\ ring = <<3>>

====
